---------------------------- MODULE Spec2Model ----------------------------
(***************************************************************************)
(* Painel ADB (painel_adb.py): a FastAPI facade over the `adb` executable. *)
(*                                                                         *)
(* Text is modelled as a sequence of characters (one-character strings;    *)
(* a fixed phrase that shares no character with a device address is kept   *)
(* as one token), bytes as a sequence of small numbers or tokens.          *)
(*                                                                         *)
(* Execution contexts:                                                     *)
(*   - the asyncio event loop runs the coroutines set_ip, key_event,       *)
(*     adb_autoreconnect_loop and screencap_generator; `running` names the *)
(*     coroutine that holds the loop between two of its awaits;            *)
(*   - the thread pool runs the plain `def` handlers connect, status,      *)
(*     reboot, screenshot and the grab() closures of asyncio.to_thread.    *)
(***************************************************************************)
EXTENDS Integers, Sequences, FiniteSets, TLC

-----------------------------------------------------------------------------
(* Bounds of the model *)

\* captures one frame-stream instance may issue before the model stops it: in
\* the specification of the frame streams, and in that of the whole server
MaxCaptures == 4

MaxCapturesWhole == 1

\* and in the specification of two frame streams side by side
MaxCapturesPair == 2

\* thread-pool slots serving the plain `def` request handlers
Workers == {"w1", "w2"}

\* client connections to GET /screen
Clients == {"c1", "c2"}

-----------------------------------------------------------------------------
(* Text *)

\* Python's None (also: a JSON field that is missing or null)
None == <<"<None>">>

E == <<>>

Whitespace == {" ", "\n", "\t", "\r"}

\* a byte that is not valid UTF-8
BadByte == "xFF"

RECURSIVE LStrip(_)
LStrip(s) == IF s # <<>> /\ Head(s) \in Whitespace THEN LStrip(Tail(s)) ELSE s

RECURSIVE RStrip(_)
RStrip(s) ==
    IF s # <<>> /\ s[Len(s)] \in Whitespace THEN RStrip(SubSeq(s, 1, Len(s) - 1)) ELSE s

\* str.strip()
Strip(s) == RStrip(LStrip(s))

\* bytes.decode(errors="ignore"): undecodable bytes are dropped
Decode(b) == SelectSeq(b, LAMBDA x : x # BadByte)

\* Python's `a in b` on str
IsSubstring(a, b) ==
    \E i \in 0..(Len(b) - Len(a)) : SubSeq(b, i + 1, i + Len(a)) = a

Digit(d) == CASE d = 0 -> "0" [] d = 1 -> "1" [] d = 2 -> "2" [] d = 3 -> "3"
              [] d = 4 -> "4" [] d = 5 -> "5" [] d = 6 -> "6" [] d = 7 -> "7"
              [] d = 8 -> "8" [] d = 9 -> "9"

DigitVal(c) == CASE c = "0" -> 0 [] c = "1" -> 1 [] c = "2" -> 2 [] c = "3" -> 3
                 [] c = "4" -> 4 [] c = "5" -> 5 [] c = "6" -> 6 [] c = "7" -> 7
                 [] c = "8" -> 8 [] c = "9" -> 9

Digits == {"0", "1", "2", "3", "4", "5", "6", "7", "8", "9"}

RECURSIVE NatToStr(_)
NatToStr(n) == IF n < 10 THEN <<Digit(n)>> ELSE NatToStr(n \div 10) \o <<Digit(n % 10)>>

\* str(int)
IntToStr(k) == IF k < 0 THEN <<"-">> \o NatToStr(0 - k) ELSE NatToStr(k)

\* len(data) inside an f-string
LenToStr(data) == NatToStr(Len(data))

-----------------------------------------------------------------------------
(* Device addresses *)

\* os.environ.get("TV_IP", "10.0.110.253"): the default host
DefaultHost == <<"1", "0", ".", "0", ".", "1", "1", "0", ".", "2", "5", "3">>

HostA == <<"1", ".", "2", ".", "3", ".", "4">>

HostB == <<"1", "9", "2", ".", "1", "6", "8", ".", "0", ".", "5">>

\* values of the TV_IP environment variable (None: unset)
EnvValues == {None, HostA}

\* values of the "ip" field of a POST /set_ip body (None: the field is missing)
IpValues == {None, E, HostA, HostB}

\* f"{TV_IP}:5555"
Device(host) == host \o <<":", "5", "5", "5", "5">>

\* os.environ.get("TV_IP", "10.0.110.253")
EnvGet(env) == IF env = None THEN DefaultHost ELSE env

-----------------------------------------------------------------------------
(* The adb executable: what one child process can do *)

TimeoutMsg == <<"t", "i", "m", "e", "o", "u", "t">>

NotFoundMsg == <<"a", "d", "b", "-", "n", "o", "t", "-", "f", "o", "u", "n", "d">>

Header == <<"List of devices attached", "\n">>

Line(dev) == dev \o <<"\t", "device", "\n">>

OfflineMsg == <<"error: device offline", "\n">>

Img1 == <<"x89", "P">>

Img2 == <<"x89", "P", "N">>

Exit(stdout, stderr, rc) == [kind |-> "exit", stdout |-> stdout, stderr |-> stderr, rc |-> rc]

\* subprocess.TimeoutExpired, FileNotFoundError, and any other exception of
\* subprocess.run / Popen (PermissionError when adb is not executable, OSError
\* when no process can be created, ValueError for a NUL in an argument)
Failure(kind) == [kind |-> kind, stdout |-> E, stderr |-> E, rc |-> 0]

Failures == {Failure("timeout"), Failure("notfound"), Failure("oserror")}

\* what a text command (devices, connect, shell, reboot) can end as
TextOutcomes ==
    { Exit(Header, E, 0),
      Exit(Header \o Line(Device(HostB)), E, 0),
      Exit(Header \o Line(<<"1">> \o Device(HostA)), E, 0),
      Exit(E, OfflineMsg, 1),
      Exit(<<" ", BadByte, "ok", "\n">>, <<BadByte, "warn", "\n">>, 0) } \cup Failures

\* what `adb exec-out screencap -p` can end as
CaptureOutcomes ==
    { Exit(Img1, E, 0),
      Exit(Img2, E, 0),
      Exit(E, OfflineMsg, 1),
      Exit(Img1, OfflineMsg, 1) } \cup Failures

\* _adb_cmd without its `except FileNotFoundError` clause
CaughtTimeoutOnly == {"timeout"}

\* _adb_cmd without its `except subprocess.TimeoutExpired` clause
CaughtNotFoundOnly == {"notfound"}

\* the except clauses of _adb_cmd: the exceptions it turns into a result
Caught == {"timeout", "notfound"}

\* _adb_cmd(args, timeout): the value returned for a child that ends as o, or
\* the exception that leaves the function (exc)
adb_cmd(o) ==
    CASE o.kind = "exit" ->
            [exc |-> FALSE, out |-> Decode(o.stdout), err |-> Decode(o.stderr), code |-> o.rc]
      [] o.kind = "timeout" /\ o.kind \in Caught ->
            [exc |-> FALSE, out |-> E, err |-> TimeoutMsg, code |-> 124]
      [] o.kind = "notfound" /\ o.kind \in Caught ->
            [exc |-> FALSE, out |-> E, err |-> NotFoundMsg, code |-> 127]
      [] OTHER ->
            [exc |-> TRUE, out |-> E, err |-> E, code |-> 0]

\* a word of a command line, as text
T(word) == <<word>>

\* cmd = ["adb"] + args
Cmd(args) == <<T("adb")>> \o args

-----------------------------------------------------------------------------
(* State *)

VARIABLES
    TV_IP,        \* global TV_IP
    ADB_DEVICE,   \* global ADB_DEVICE
    running,      \* the coroutine holding the event loop: "none", "rc", "set_ip", "key"
    rc,           \* adb_autoreconnect_loop: [pc, out]
    th,           \* thread-pool request handlers: worker -> [op, pc, o]
    st,           \* screencap_generator instances: client -> [pc, data]
    gt,           \* grab() threads of asyncio.to_thread: client -> "idle", "queued", "run"
    file,         \* content of tv_screenshot.png
    ev,           \* what the last step did that can be observed from outside
    arg,          \* history: the "ip" of the set_ip that is under way
    lastOk,       \* history: the "ip" of the last set_ip that succeeded; before the first,
                  \* the TV_IP of the environment, 10.0.110.253 if it is unset
    connected,    \* history: client -> the client connection is open
    caps,         \* history: client -> the captures its instance has got back, in order
    frames        \* history: client -> the frames its instance has yielded, in order

vars == <<TV_IP, ADB_DEVICE, running, rc, th, st, gt, file, ev, arg, lastOk, connected, caps,
          frames>>

NoEvent == [type |-> "none"]

NoOutcome == Failure("none")

Idle == [op |-> "idle", pc |-> "idle", o |-> NoOutcome]

Init ==
    /\ \E env \in EnvValues :
          /\ TV_IP = EnvGet(env)
          /\ lastOk = IF env \in {HostA, HostB} THEN env
                      ELSE <<"1", "0", ".", "0", ".", "1", "1", "0", ".", "2", "5", "3">>
    /\ ADB_DEVICE = Device(TV_IP)
    /\ arg = None
    /\ running = "none"
    /\ rc = [pc |-> "start", out |-> E]
    /\ th = [w \in Workers |-> Idle]
    /\ st = [c \in Clients |-> [pc |-> "off", data |-> E]]
    /\ gt = [c \in Clients |-> "idle"]
    /\ file = E
    /\ ev = NoEvent
    /\ connected = [c \in Clients |-> FALSE]
    /\ caps = [c \in Clients |-> <<>>]
    /\ frames = [c \in Clients |-> <<>>]

-----------------------------------------------------------------------------
(* POST /set_ip *)

\* `if ip is None` in place of `if not ip`
FalsyNoneOnly(ip) == ip = None

\* `not ip`
Falsy(ip) == ip = None \/ ip = E

\* a field of a JSON request body: its type, its number or its text
Key(t, v, s) == [t |-> t, v |-> v, s |-> s]

NoInput == Key("none", 0, E)

\* an HTTP response; req and o are the request's input and the end of its child
\* process, kept beside it
Response(op, status, body, req, o) ==
    [type |-> "resp", op |-> op, status |-> status, body |-> body, req |-> req, o |-> o]

\* a child process is started with command line cmd
Spawn(by, cmd, req) == [type |-> "spawn", by |-> by, cmd |-> cmd, req |-> req]

\* set_ip that assigns TV_IP alone and leaves the string computed at import
RetargetStale(device, host) == device

\* set_ip that writes the new host over the old string in place, keeping what
\* the old string has beyond it
RetargetInPlace(device, host) == host \o SubSeq(device, Len(host) + 1, Len(device))

\* ADB_DEVICE = f"{TV_IP}:5555": the value assigned while ADB_DEVICE holds device
Retarget(device, host) == Device(host)

\* body.get("ip"); if not ip: raise HTTPException(400); TV_IP = ip
set_ip(ip) ==
    /\ running = "none"
    /\ IF Falsy(ip)
         THEN /\ ev' = Response("set_ip", 400, [detail |-> "ip required"], Key("ip", 0, ip), NoOutcome)
              /\ UNCHANGED <<TV_IP, running, arg>>
         ELSE /\ TV_IP' = ip
              /\ arg' = ip
              /\ running' = "set_ip"
              /\ ev' = NoEvent
    /\ UNCHANGED <<ADB_DEVICE, rc, th, st, gt, file, lastOk, connected, caps, frames>>

\* ADB_DEVICE = f"{TV_IP}:5555"; return {"tv_ip": TV_IP, "adb_device": ADB_DEVICE}
set_ip_return ==
    /\ running = "set_ip"
    /\ ADB_DEVICE' = Retarget(ADB_DEVICE, TV_IP)
    /\ lastOk' = arg
    /\ arg' = None
    /\ running' = "none"
    /\ ev' = Response("set_ip", 200, [tv_ip |-> TV_IP, adb_device |-> ADB_DEVICE'],
                      Key("ip", 0, arg), NoOutcome)
    /\ UNCHANGED <<TV_IP, rc, th, st, gt, file, connected, caps, frames>>

-----------------------------------------------------------------------------
(* POST /key *)

\* values of the "key" field of a POST /key body: integers, the float 1.5 (in
\* tenths), strings, true, and null or missing
KeyValues ==
    { Key("int", 3, E), Key("int", 26, E), Key("int", -1, E),
      Key("float", 15, E),
      Key("str", 0, <<"7">>), Key("str", 0, <<"u", "p">>),
      Key("bool", 1, E),
      Key("null", 0, E) }

RECURSIVE ParseNat(_)
ParseNat(s) == IF s = <<>> THEN 0 ELSE 10 * ParseNat(SubSeq(s, 1, Len(s) - 1)) + DigitVal(s[Len(s)])

AllDigits(s) == s # <<>> /\ \A i \in 1..Len(s) : s[i] \in Digits

\* int(str): surrounding whitespace and one sign are accepted
ParseInt(str) ==
    LET s == Strip(str)
        signed == s # <<>> /\ Head(s) \in {"+", "-"}
        body == IF signed THEN Tail(s) ELSE s
    IN  IF AllDigits(body)
          THEN [ok |-> TRUE, v |-> IF signed /\ Head(s) = "-" THEN 0 - ParseNat(body) ELSE ParseNat(body)]
          ELSE [ok |-> FALSE, v |-> 0]

\* int(key): raises (ok = FALSE) or gives the integer
ToInt(key) ==
    CASE key.t = "int" -> [ok |-> TRUE, v |-> key.v]
      [] key.t = "bool" -> [ok |-> TRUE, v |-> key.v]
      [] key.t = "float" ->
            [ok |-> TRUE, v |-> IF key.v >= 0 THEN key.v \div 10 ELSE 0 - ((0 - key.v) \div 10)]
      [] key.t = "str" -> ParseInt(key.s)
      [] OTHER -> [ok |-> FALSE, v |-> 0]

\* the key event sent without the device selector
KeyArgsNoSelector(device, key_int) ==
    <<T("shell"), T("input"), T("keyevent"), IntToStr(key_int)>>

\* ["-s", ADB_DEVICE, "shell", "input", "keyevent", str(key_int)]
KeyArgs(device, key_int) ==
    <<T("-s"), device, T("shell"), T("input"), T("keyevent"), IntToStr(key_int)>>

\* {"out": out, "err": err, "code": code}
OutErrCode(res) == [out |-> res.out, err |-> res.err, code |-> res.code]

\* an exception that leaves a handler: FastAPI answers 500
ServerError == [detail |-> "Internal Server Error"]

\* key = body.get("key"); int(key) or 400; the call of _adb_cmd up to the start of the child
key_event(key) ==
    /\ running = "none"
    /\ IF ToInt(key).ok
         THEN /\ ev' = Spawn("key", Cmd(KeyArgs(ADB_DEVICE, ToInt(key).v)), key)
              /\ running' = "key"
         ELSE /\ ev' = Response("key", 400, [detail |-> "key must be an integer"], key, NoOutcome)
              /\ UNCHANGED running
    /\ UNCHANGED <<TV_IP, ADB_DEVICE, rc, th, st, gt, file, arg, lastOk, connected, caps, frames>>

\* the child ends; return {"out": out, "err": err, "code": code}
key_event_return(o) ==
    /\ running = "key"
    /\ running' = "none"
    /\ ev' = IF adb_cmd(o).exc
               THEN Response("key", 500, ServerError, NoInput, o)
               ELSE Response("key", 200, OutErrCode(adb_cmd(o)), NoInput, o)
    /\ UNCHANGED <<TV_IP, ADB_DEVICE, rc, th, st, gt, file, arg, lastOk, connected, caps, frames>>

-----------------------------------------------------------------------------
(* GET /connect, GET /status, POST /reboot: plain handlers, run by the thread pool *)

Begin(w, op, cmd) ==
    /\ th[w].op = "idle"
    /\ th' = [th EXCEPT ![w] = [op |-> op, pc |-> "run", o |-> NoOutcome]]
    /\ ev' = Spawn(op, cmd, NoInput)
    /\ UNCHANGED <<TV_IP, ADB_DEVICE, running, rc, st, gt, file, arg, lastOk, connected, caps, frames>>

Return(w, op, o, body) ==
    /\ th[w].op = op
    /\ th[w].pc = "run"
    /\ th' = [th EXCEPT ![w] = Idle]
    /\ ev' = IF adb_cmd(o).exc
               THEN Response(op, 500, ServerError, NoInput, o)
               ELSE Response(op, 200, body, NoInput, o)
    /\ UNCHANGED <<TV_IP, ADB_DEVICE, running, rc, st, gt, file, arg, lastOk, connected, caps, frames>>

\* _adb_cmd(["connect", ADB_DEVICE])
connect(w) == Begin(w, "connect", Cmd(<<T("connect"), ADB_DEVICE>>))

\* return {"out": out.strip(), "err": err.strip(), "code": code}
ConnectBody(res) == [out |-> Strip(res.out), err |-> Strip(res.err), code |-> res.code]

connect_return(w, o) == Return(w, "connect", o, ConnectBody(adb_cmd(o)))

\* _adb_cmd(["devices"])
status(w) == Begin(w, "status", Cmd(<<T("devices")>>))

\* return {"adb_devices": out, "adb_err": err, "adb_device": ADB_DEVICE}
StatusBody(res, device) == [adb_devices |-> res.out, adb_err |-> res.err, adb_device |-> device]

status_return(w, o) == Return(w, "status", o, StatusBody(adb_cmd(o), ADB_DEVICE))

\* _adb_cmd(["-s", ADB_DEVICE, "reboot"])
reboot(w) == Begin(w, "reboot", Cmd(<<T("-s"), ADB_DEVICE, T("reboot")>>))

reboot_return(w, o) == Return(w, "reboot", o, OutErrCode(adb_cmd(o)))

-----------------------------------------------------------------------------
(* GET /screenshot: a plain handler, run by the thread pool *)

\* ["adb", "-s", ADB_DEVICE, "exec-out", "screencap", "-p"]
CaptureCmd(device) == <<T("adb"), T("-s"), device, T("exec-out"), T("screencap"), T("-p")>>

\* f.write(data) at offset 0 of a file opened "wb" that now holds old
WriteAt0(old, data) == data \o SubSeq(old, Len(data) + 1, Len(old))

\* open(fname, "wb") truncates the file; subprocess.Popen([...])
screenshot(w) ==
    /\ th[w].op = "idle"
    /\ th' = [th EXCEPT ![w] = [op |-> "screenshot", pc |-> "run", o |-> NoOutcome]]
    /\ file' = E
    /\ ev' = Spawn("screenshot", CaptureCmd(ADB_DEVICE), NoInput)
    /\ UNCHANGED <<TV_IP, ADB_DEVICE, running, rc, st, gt, arg, lastOk, connected, caps, frames>>

\* p.communicate(timeout=10); f.write(data); the except clauses
screenshot_communicate(w, o) ==
    /\ th[w].op = "screenshot"
    /\ th[w].pc = "run"
    /\ CASE o.kind = "exit" ->
              /\ file' = WriteAt0(file, o.stdout)
              /\ th' = [th EXCEPT ![w] = [op |-> "screenshot", pc |-> "send", o |-> o]]
              /\ ev' = NoEvent
         [] o.kind = "timeout" ->
              /\ th' = [th EXCEPT ![w] = Idle]
              /\ ev' = Response("screenshot", 504, [detail |-> "screencap timeout"], NoInput, o)
              /\ UNCHANGED file
         [] OTHER ->
              /\ th' = [th EXCEPT ![w] = Idle]
              /\ ev' = Response("screenshot", 500, [detail |-> o.kind], NoInput, o)
              /\ UNCHANGED file
    /\ UNCHANGED <<TV_IP, ADB_DEVICE, running, rc, st, gt, arg, lastOk, connected, caps, frames>>

\* return FileResponse(fname, ...): the body is what the file holds when it is sent
screenshot_send(w) ==
    /\ th[w].op = "screenshot"
    /\ th[w].pc = "send"
    /\ th' = [th EXCEPT ![w] = Idle]
    /\ ev' = Response("screenshot", 200, [content |-> file], NoInput, th[w].o)
    /\ UNCHANGED <<TV_IP, ADB_DEVICE, running, rc, st, gt, file, arg, lastOk, connected, caps, frames>>

-----------------------------------------------------------------------------
(* adb_autoreconnect_loop: a coroutine started once, at startup *)

\* the end of a call of _adb_cmd, seen from outside
Ret(by, o) == [type |-> "ret", by |-> by, o |-> o, res |-> adb_cmd(o)]

\* `ADB_DEVICE not in out`
Absent(device, out) == ~IsSubstring(device, out)

\* while True: try: _adb_cmd(["devices"]) up to the start of the child; also the
\* end of `await asyncio.sleep(5)` of the cycle before
rc_devices ==
    /\ running = "none"
    /\ rc.pc \in {"start", "sleep5"}
    /\ running' = "rc"
    /\ rc' = [pc |-> "devices_run", out |-> E]
    /\ ev' = Spawn("rc", Cmd(<<T("devices")>>), NoInput)
    /\ UNCHANGED <<TV_IP, ADB_DEVICE, th, st, gt, file, arg, lastOk, connected, caps, frames>>

\* out, err, code = the result; an exception goes to `except Exception: pass`
rc_devices_return(o) ==
    /\ running = "rc"
    /\ rc.pc = "devices_run"
    /\ IF adb_cmd(o).exc
         THEN /\ rc' = [pc |-> "sleep5", out |-> E]
              /\ running' = "none"
         ELSE /\ rc' = [pc |-> "test", out |-> adb_cmd(o).out]
              /\ UNCHANGED running
    /\ ev' = Ret("rc", o)
    /\ UNCHANGED <<TV_IP, ADB_DEVICE, th, st, gt, file, arg, lastOk, connected, caps, frames>>

\* a loop that gives the event loop back between the test and the connect (an
\* await after the test)
rc_test_released ==
    /\ running = "rc"
    /\ rc.pc = "test"
    /\ rc' = [pc |-> IF Absent(ADB_DEVICE, rc.out) THEN "connect" ELSE "sleep5", out |-> E]
    /\ running' = "none"
    /\ ev' = [type |-> "test", device |-> ADB_DEVICE, out |-> rc.out]
    /\ UNCHANGED <<TV_IP, ADB_DEVICE, th, st, gt, file, arg, lastOk, connected, caps, frames>>

\* if ADB_DEVICE not in out: ...; else: await asyncio.sleep(5)
rc_test ==
    /\ running = "rc"
    /\ rc.pc = "test"
    /\ IF Absent(ADB_DEVICE, rc.out)
         THEN /\ rc' = [pc |-> "connect", out |-> E]
              /\ UNCHANGED running
         ELSE /\ rc' = [pc |-> "sleep5", out |-> E]
              /\ running' = "none"
    /\ ev' = [type |-> "test", device |-> ADB_DEVICE, out |-> rc.out]
    /\ UNCHANGED <<TV_IP, ADB_DEVICE, th, st, gt, file, arg, lastOk, connected, caps, frames>>

\* a loop that assigns the global it declares: it falls back to the default
\* host before it connects
rc_connect_to_default ==
    /\ running = "rc"
    /\ rc.pc = "connect"
    /\ rc' = [pc |-> "connect_run", out |-> E]
    /\ ADB_DEVICE' = Device(DefaultHost)
    /\ ev' = Spawn("rc", Cmd(<<T("connect"), ADB_DEVICE'>>), NoInput)
    /\ UNCHANGED <<TV_IP, running, th, st, gt, file, arg, lastOk, connected, caps, frames>>

\* _adb_cmd(["connect", ADB_DEVICE]) up to the start of the child
rc_connect ==
    /\ running = "rc"
    /\ rc.pc = "connect"
    /\ rc' = [pc |-> "connect_run", out |-> E]
    /\ ev' = Spawn("rc", Cmd(<<T("connect"), ADB_DEVICE>>), NoInput)
    /\ UNCHANGED <<TV_IP, ADB_DEVICE, running, th, st, gt, file, arg, lastOk, connected, caps, frames>>

\* the connect ends: await asyncio.sleep(2), or `except Exception: pass` and
\* await asyncio.sleep(5)
rc_connect_return(o) ==
    /\ running = "rc"
    /\ rc.pc = "connect_run"
    /\ rc' = [pc |-> IF adb_cmd(o).exc THEN "sleep5" ELSE "sleep2", out |-> E]
    /\ running' = "none"
    /\ ev' = Ret("rc", o)
    /\ UNCHANGED <<TV_IP, ADB_DEVICE, th, st, gt, file, arg, lastOk, connected, caps, frames>>

\* asyncio.sleep(2) is over: await asyncio.sleep(5)
rc_sleep ==
    /\ running = "none"
    /\ rc.pc = "sleep2"
    /\ rc' = [pc |-> "sleep5", out |-> E]
    /\ ev' = NoEvent
    /\ UNCHANGED <<TV_IP, ADB_DEVICE, running, th, st, gt, file, arg, lastOk, connected, caps, frames>>

-----------------------------------------------------------------------------
(* GET /screen: one screencap_generator per client connection *)

CRLF == "\r\n"

\* a frame whose Content-Length counts the closing line break as well
FrameLengthOfPart(data) ==
    <<"--frame", CRLF, "Content-Type: image/png", CRLF, "Content-Length: ">>
        \o LenToStr(data \o <<CRLF>>) \o <<CRLF, CRLF>> \o data \o <<CRLF>>

\* header + data + b"\r\n", header = f"{boundary}\r\nContent-Type: image/png\r\n
\* Content-Length: {len(data)}\r\n\r\n".encode()
Frame(data) ==
    <<"--frame", CRLF, "Content-Type: image/png", CRLF, "Content-Length: ">>
        \o LenToStr(data) \o <<CRLF, CRLF>> \o data \o <<CRLF>>

\* what grab() returns as data: p.stdout, or b"" from `except Exception`
GrabData(o) == IF o.kind = "exit" THEN o.stdout ELSE E

\* a generator that takes every capture for an empty one
NoDataAlways(data) == TRUE

\* `if not data`
NoData(data) == data = E

\* a generator whose backoff sleep is wrapped in a try that swallows the
\* cancellation and goes on with the loop
OnCancelSwallowedInBackoff(pc) == IF pc = "backoff" THEN pc ELSE "off"

\* the generator is cancelled at the await or the yield where it is suspended:
\* no clause of it catches the cancellation, so it ends there
OnCancel(pc) == "off"

\* return StreamingResponse(screencap_generator(), ...)
screen(c) ==
    /\ st[c].pc = "off"
    /\ gt[c] = "idle"
    /\ ~connected[c]
    /\ st' = [st EXCEPT ![c] = [pc |-> "top", data |-> E]]
    /\ connected' = [connected EXCEPT ![c] = TRUE]
    /\ caps' = [caps EXCEPT ![c] = <<>>]
    /\ frames' = [frames EXCEPT ![c] = <<>>]
    /\ ev' = NoEvent
    /\ UNCHANGED <<TV_IP, ADB_DEVICE, running, rc, th, gt, file, arg, lastOk>>

\* while True: def grab(): ...; await asyncio.to_thread(grab): the capture is
\* handed to the thread pool (also the end of the sleep of the iteration before)
gen_capture(c, max) ==
    /\ running = "none"
    /\ st[c].pc \in {"top", "backoff", "wait"}
    /\ Len(caps[c]) < max
    /\ st' = [st EXCEPT ![c] = [pc |-> "await_grab", data |-> E]]
    /\ gt' = [gt EXCEPT ![c] = "queued"]
    /\ ev' = NoEvent
    /\ UNCHANGED <<TV_IP, ADB_DEVICE, running, rc, th, file, arg, lastOk, connected, caps, frames>>

\* grab() in its thread: subprocess.run(["adb", "-s", ADB_DEVICE, ...], timeout=6)
grab(c) ==
    /\ gt[c] = "queued"
    /\ gt' = [gt EXCEPT ![c] = "run"]
    /\ ev' = Spawn(c, CaptureCmd(ADB_DEVICE), NoInput)
    /\ UNCHANGED <<TV_IP, ADB_DEVICE, running, rc, th, st, file, arg, lastOk, connected, caps, frames>>

\* grab() returns p.stdout, p.stderr, or b"", str(e).encode(); the generator, if
\* it still awaits the thread, gets data
grab_return(c, o) ==
    /\ gt[c] = "run"
    /\ gt' = [gt EXCEPT ![c] = "idle"]
    /\ IF st[c].pc = "await_grab"
         THEN /\ st' = [st EXCEPT ![c] = [pc |-> "resume", data |-> GrabData(o)]]
              /\ caps' = [caps EXCEPT ![c] = Append(@, GrabData(o))]
         ELSE UNCHANGED <<st, caps>>
    /\ ev' = [type |-> "grabbed", by |-> c, o |-> o]
    /\ UNCHANGED <<TV_IP, ADB_DEVICE, running, rc, th, file, arg, lastOk, connected, frames>>

\* if not data: await asyncio.sleep(0.4); continue -- else: yield header + data + b"\r\n"
gen_resume(c) ==
    /\ running = "none"
    /\ st[c].pc = "resume"
    /\ IF NoData(st[c].data)
         THEN /\ st' = [st EXCEPT ![c] = [pc |-> "backoff", data |-> E]]
              /\ ev' = NoEvent
              /\ UNCHANGED frames
         ELSE /\ st' = [st EXCEPT ![c] = [pc |-> "yielded", data |-> E]]
              /\ ev' = [type |-> "frame", by |-> c, frame |-> Frame(st[c].data)]
              /\ frames' = [frames EXCEPT ![c] = Append(@, Frame(st[c].data))]
    /\ UNCHANGED <<TV_IP, ADB_DEVICE, running, rc, th, gt, file, arg, lastOk, connected, caps>>

\* the response has sent the frame and asks for the next: await asyncio.sleep(0.18)
gen_next(c) ==
    /\ running = "none"
    /\ st[c].pc = "yielded"
    /\ st' = [st EXCEPT ![c] = [pc |-> "wait", data |-> E]]
    /\ ev' = NoEvent
    /\ UNCHANGED <<TV_IP, ADB_DEVICE, running, rc, th, gt, file, arg, lastOk, connected, caps, frames>>

\* the client closes the connection: the response cancels its generator; a
\* capture the thread pool has not started yet is cancelled with it, one that
\* runs goes on to its end
disconnect(c) ==
    /\ connected[c]
    /\ connected' = [connected EXCEPT ![c] = FALSE]
    /\ st' = [st EXCEPT ![c] = [pc |-> OnCancel(st[c].pc), data |-> E]]
    /\ gt' = [gt EXCEPT ![c] = IF @ = "queued" THEN "idle" ELSE @]
    /\ ev' = NoEvent
    /\ UNCHANGED <<TV_IP, ADB_DEVICE, running, rc, th, file, arg, lastOk, caps, frames>>

-----------------------------------------------------------------------------
(* The system *)

\* the coroutines of the request handlers set_ip and key_event
Async ==
    \/ \E ip \in IpValues : set_ip(ip)
    \/ set_ip_return
    \/ \E key \in KeyValues : key_event(key)
    \/ \E o \in TextOutcomes : key_event_return(o)

\* the plain handlers, run by the thread-pool slots W
Handlers(W) ==
    \/ \E w \in W : connect(w)
    \/ \E w \in W, o \in TextOutcomes : connect_return(w, o)
    \/ \E w \in W : status(w)
    \/ \E w \in W, o \in TextOutcomes : status_return(w, o)
    \/ \E w \in W : reboot(w)
    \/ \E w \in W, o \in TextOutcomes : reboot_return(w, o)
    \/ \E w \in W : screenshot(w)
    \/ \E w \in W, o \in CaptureOutcomes : screenshot_communicate(w, o)
    \/ \E w \in W : screenshot_send(w)

\* adb_autoreconnect_loop
Reconnect ==
    \/ rc_devices
    \/ \E o \in TextOutcomes : rc_devices_return(o)
    \/ rc_test
    \/ rc_connect
    \/ \E o \in TextOutcomes : rc_connect_return(o)
    \/ rc_sleep

\* the frame streams of the client connections C
Streams(C, max) ==
    \/ \E c \in C : screen(c)
    \/ \E c \in C : gen_capture(c, max)
    \/ \E c \in C : grab(c)
    \/ \E c \in C, o \in CaptureOutcomes : grab_return(c, o)
    \/ \E c \in C : gen_resume(c)
    \/ \E c \in C : gen_next(c)
    \/ \E c \in C : disconnect(c)

\* the whole server, with one thread-pool slot and one streaming client
Next == Async \/ Reconnect \/ Handlers({"w1"}) \/ Streams({"c1"}, MaxCapturesWhole)

Spec == Init /\ [][Next]_vars

\* the request handlers and the reconnect loop, with every thread-pool slot
NextHandlers == Async \/ Reconnect \/ Handlers(Workers)

SpecHandlers == Init /\ [][NextHandlers]_vars

\* the frame streams beside set_ip
NextStreams ==
    \/ \E ip \in IpValues : set_ip(ip)
    \/ set_ip_return
    \/ Streams({"c1"}, MaxCaptures)

SpecStreams == Init /\ [][NextStreams]_vars

\* two client connections, each with its own screencap_generator
NextPair == Streams(Clients, MaxCapturesPair)

SpecPair == Init /\ [][NextPair]_vars

\* the coroutines and one thread-pool slot, scheduled fairly: the event loop
\* runs a coroutine that is ready (its sleep is over and the loop is free) in
\* turn, and every child process ends, by itself or by its timeout
NextLoop == Async \/ Reconnect \/ Handlers({"w1"})

FairSpec ==
    /\ Init
    /\ [][NextLoop]_vars
    /\ SF_vars(Reconnect)
    /\ WF_vars(set_ip_return)
    /\ WF_vars(\E o \in TextOutcomes : key_event_return(o))

-----------------------------------------------------------------------------
(* Properties *)

Port == <<":", "5", "5", "5", "5">>

\* the target the session is to address: <host>:5555 for the ip of the last
\* set_ip that succeeded, before the first for the TV_IP of the environment
TargetText == lastOk \o Port

\* C1: with h the host of the last set_ip that succeeded, every child process
\* started by connect, key_event, reboot, screenshot, the reconnect loop or a
\* frame stream is given h:5555 as its device, the reconnect loop tests the
\* device list for h:5555, and a status that answers reports h:5555.
C1_OperationsUseLiveTarget ==
    /\ (ev.type = "spawn" /\ Len(ev.cmd) >= 3) => ev.cmd[3] = lastOk \o Port
    /\ ev.type = "test" => ev.device = lastOk \o Port
    /\ (ev.type = "resp" /\ ev.op = "status" /\ ev.status = 200) =>
           ev.body.adb_device = lastOk \o Port

C1_Witness ==
    /\ lastOk = HostB
    /\ ev.type = "spawn"
    /\ ev.by = "rc"
    /\ ev.cmd = <<T("adb"), T("connect"), HostB \o Port>>

\* C2: a set_ip whose ip is empty or missing is answered 400 and changes neither
\* TV_IP nor ADB_DEVICE.
C2_EmptyHostRejected ==
    [][ (ev'.type = "resp" /\ ev'.op = "set_ip" /\ ev'.req.s \in {None, E}) =>
            /\ ev'.status = 400
            /\ TV_IP' = TV_IP
            /\ ADB_DEVICE' = ADB_DEVICE ]_vars

C2_Witness ==
    /\ ev.type = "resp"
    /\ ev.op = "set_ip"
    /\ ev.req.s = E
    /\ ev.status = 400
    /\ lastOk = HostA
    /\ ADB_DEVICE = HostA \o Port

\* str(k) of the integer keys of KeyValues
KeyText(k) == CASE k = 3 -> <<"3">> [] k = 26 -> <<"2", "6">> [] k = -1 -> <<"-", "1">>

\* C6: key_event with an integer key k starts adb with exactly the arguments
\* -s <target> shell input keyevent <k>, the target being the live session
\* target <host>:5555.
C6_SendKeyArgs ==
    (ev.type = "spawn" /\ ev.by = "key" /\ ev.req.t = "int") =>
        /\ ev.cmd = <<T("adb"), T("-s"), ADB_DEVICE, T("shell"), T("input"), T("keyevent"),
                      KeyText(ev.req.v)>>
        /\ ADB_DEVICE = TargetText

C6_Witness ==
    /\ ev.type = "spawn"
    /\ ev.by = "key"
    /\ ev.req.t = "int"
    /\ ev.req.v = -1
    /\ lastOk = HostB
    /\ ev.cmd[3] = HostB \o Port

\* C7: the session target is always <host>:5555 for the host of lastOk, and
\* every answer of GET /status is a 200 that reports it as adb_device, however
\* the list-devices child ended.
C7_TargetAndStatus ==
    /\ ADB_DEVICE = TargetText
    /\ (ev.type = "resp" /\ ev.op = "status") =>
           /\ ev.status = 200
           /\ ev.body.adb_device = TargetText


\* the end of a child process is reported by the last step
InvocationEnded == ev.type = "ret" \/ (ev.type = "resp" /\ ev.o.kind # "none")

RcDevices == ev.type = "spawn" /\ ev.by = "rc" /\ ev.cmd = <<T("adb"), T("devices")>>

RcConnectsToTarget ==
    ev.type = "spawn" /\ ev.by = "rc" /\ ev.cmd = <<T("adb"), T("connect"), lastOk \o Port>>

\* C3: if every child process ends by its timeout, the reconnect loop starts
\* its list-devices check again and again for ever, and each check is followed
\* by a connect to the live target.
C3_LoopSurvivesTimeouts ==
    [](InvocationEnded => ev.o.kind = "timeout") =>
        /\ []<>RcDevices
        /\ [](RcDevices => <>RcConnectsToTarget)

C3_Witness ==
    /\ ev.type = "ret"
    /\ ev.by = "rc"
    /\ ev.o.kind = "timeout"
    /\ rc.pc = "sleep2"
    /\ lastOk = HostB

\* the captures that gave data, in order
Successful(cs) == SelectSeq(cs, LAMBDA d : d # <<>>)

\* f is the boundary line, the Content-Type line, a Content-Length line whose
\* number is the length of d, an empty line, d, and a line break
IsFrameOf(f, d) ==
    LET k == Len(f) - Len(d) - 8
    IN  /\ k >= 1
        /\ SubSeq(f, 1, 5) = <<"--frame", "\r\n", "Content-Type: image/png", "\r\n", "Content-Length: ">>
        /\ AllDigits(SubSeq(f, 6, 5 + k))
        /\ ParseNat(SubSeq(f, 6, 5 + k)) = Len(d)
        /\ SubSeq(f, 6 + k, 7 + k) = <<"\r\n", "\r\n">>
        /\ SubSeq(f, 8 + k, 7 + k + Len(d)) = d
        /\ f[Len(f)] = "\r\n"

C5_NoCaptureAfterDisconnect ==
    \A c \in Clients :
        ~connected[c] =>
            /\ st[c].pc = "off"
            /\ gt[c] # "queued"
            /\ ~(ev.type = "spawn" /\ ev.by = c)

C5_Witness ==
    /\ ~connected["c1"]
    /\ caps["c1"] = <<E, E>>
    /\ frames["c1"] = <<>>
    /\ gt["c1"] = "run"

\* a failure of the child that _adb_cmd turns into a result
ClassifiedFailure(o) == o.kind \in {"timeout", "notfound"} \/ (o.kind = "exit" /\ o.rc # 0)

ExpectedOut(o) == IF o.kind = "exit" THEN Decode(o.stdout) ELSE E

ExpectedErr(o) ==
    CASE o.kind = "exit" -> Decode(o.stderr)
      [] o.kind = "timeout" -> <<"t", "i", "m", "e", "o", "u", "t">>
      [] o.kind = "notfound" -> <<"a", "d", "b", "-", "n", "o", "t", "-", "f", "o", "u", "n", "d">>

ExpectedCode(o) == CASE o.kind = "exit" -> o.rc [] o.kind = "timeout" -> 124 [] o.kind = "notfound" -> 127

\* a 4xx answer is the answer to a bad request body
OnlyInvalidInputIs4xx ==
    (ev.type = "resp" /\ ev.status \in 400..499) =>
        \/ ev.op = "set_ip" /\ ev.req.s \in {None, E}
        \/ ev.op = "key" /\ (ev.req.t = "null" \/ (ev.req.t = "str" /\ ~AllDigits(ev.req.s)))

\* C8 as claimed: connect, status, key_event and reboot answer a failed child
\* (not found, timeout, nonzero exit) with a 2xx that carries its stdout,
\* stderr and exit status; only a bad request body is answered 4xx.
C8_Original ==
    /\ (ev.type = "resp" /\ ev.op \in {"connect", "status", "key", "reboot"}
            /\ ClassifiedFailure(ev.o)) =>
           /\ ev.status \in 200..299
           /\ "code" \in DOMAIN ev.body
           /\ ev.body.code = ExpectedCode(ev.o)
    /\ OnlyInvalidInputIs4xx

\* C8 as amended: key_event and reboot answer a failed child with 200 and
\* out, err, code; connect the same with out and err stripped; status with 200
\* and adb_devices, adb_err and the target, without the exit status; only a
\* bad request body is answered 4xx.
C8_FailuresAnswered200 ==
    /\ (ev.type = "resp" /\ ev.op \in {"key", "reboot"} /\ ClassifiedFailure(ev.o)) =>
           /\ ev.status = 200
           /\ ev.body = [out |-> ExpectedOut(ev.o), err |-> ExpectedErr(ev.o),
                         code |-> ExpectedCode(ev.o)]
    /\ (ev.type = "resp" /\ ev.op = "connect" /\ ClassifiedFailure(ev.o)) =>
           /\ ev.status = 200
           /\ ev.body = [out |-> Strip(ExpectedOut(ev.o)), err |-> Strip(ExpectedErr(ev.o)),
                         code |-> ExpectedCode(ev.o)]
    /\ (ev.type = "resp" /\ ev.op = "status" /\ ClassifiedFailure(ev.o)) =>
           /\ ev.status = 200
           /\ ev.body = [adb_devices |-> ExpectedOut(ev.o), adb_err |-> ExpectedErr(ev.o),
                         adb_device |-> ADB_DEVICE]
    /\ OnlyInvalidInputIs4xx

C8_Witness ==
    /\ ev.type = "resp"
    /\ ev.op = "status"
    /\ ev.o.kind = "notfound"
    /\ ev.status = 200
    /\ DOMAIN ev.body = {"adb_devices", "adb_err", "adb_device"}

\* C9: screenshot answers a child that timed out with 504 (CaptureTimeout), a
\* child that could not be run or ended nonzero with 500 (CaptureError), and
\* gives the image only for a child that ended with status 0.
C9_ScreenshotErrors ==
    (ev.type = "resp" /\ ev.op = "screenshot") =>
        /\ ev.o.kind = "timeout" => ev.status = 504
        /\ (ev.o.kind \in {"notfound", "oserror"} \/ (ev.o.kind = "exit" /\ ev.o.rc # 0)) =>
               ev.status = 500
        /\ ev.status = 200 => (ev.o.kind = "exit" /\ ev.o.rc = 0)

\* C10: whatever the child does, _adb_cmd returns: "", a stderr with "timeout"
\* and 124 for a timeout; 127 and a stderr that says not found for a missing
\* executable; the decoded stdout and stderr and the exit status otherwise.
C10_InvokerClassifies ==
    ev.type = "ret" =>
        /\ ~ev.res.exc
        /\ ev.o.kind = "timeout" =>
               /\ ev.res.out = E
               /\ IsSubstring(<<"t", "i", "m", "e", "o", "u", "t">>, ev.res.err)
               /\ ev.res.code = 124
        /\ ev.o.kind = "notfound" =>
               /\ ev.res.code = 127
               /\ IsSubstring(<<"n", "o", "t">>, ev.res.err)
               /\ IsSubstring(<<"f", "o", "u", "n", "d">>, ev.res.err)
        /\ ev.o.kind = "exit" =>
               /\ ev.res.out = Decode(ev.o.stdout)
               /\ ev.res.err = Decode(ev.o.stderr)
               /\ ev.res.code = ev.o.rc

\* C11: key_event answers a key that is not a JSON integer (missing or null, a
\* string with or without digits, a fractional number, a boolean) with 400, and
\* starts a child process for integer keys only.
C11_NonIntegerKeyRejected ==
    /\ (ev.type = "spawn" /\ ev.by = "key") => ev.req.t = "int"
    /\ (ev.type = "resp" /\ ev.op = "key" /\ ev.req.t \in {"float", "str", "bool", "null"}) =>
           ev.status = 400

\* the stdout of a child as _adb_cmd hands it on; a child that did not run
\* wrote nothing
StdoutText(o) == IF o.kind = "exit" THEN Decode(o.stdout) ELSE <<>>

\* C12: every cycle of the reconnect loop starts with a list-devices call;
\* when that call has ended the loop tests its stdout for the live target
\* <host>:5555 and goes on to `connect <target>` if and only if the target is
\* not a substring of it; the loop issues no other connect.
C12_ConnectIffAbsent ==
    [][ /\ (rc.pc \in {"start", "sleep5"} /\ rc' # rc) =>
               (ev'.type = "spawn" /\ ev'.by = "rc" /\ ev'.cmd = <<T("adb"), T("devices")>>)
        /\ (rc.pc = "devices_run" /\ rc' # rc) =>
               /\ ev'.type = "ret"
               /\ rc'.pc = "test"
               /\ rc'.out = StdoutText(ev'.o)
        /\ (rc.pc = "test" /\ rc' # rc) =>
               rc'.pc = IF IsSubstring(lastOk \o Port, rc.out) THEN "sleep5" ELSE "connect"
        /\ (rc.pc = "connect" /\ rc' # rc) =>
               (ev'.type = "spawn" /\ ev'.by = "rc"
                   /\ ev'.cmd = <<T("adb"), T("connect"), lastOk \o Port>>)
        /\ (ev'.type = "spawn" /\ ev'.by = "rc" /\ ev' # ev /\ Len(ev'.cmd) = 3) =>
               rc.pc = "connect" ]_vars

\* a loop whose pause between two cycles is the short wait
RcSleepShortPause(pc) == CASE pc = "sleep2" -> 2 [] pc = "sleep5" -> 2 [] OTHER -> 0

\* the seconds of the asyncio.sleep the reconnect loop is suspended in:
\* `await asyncio.sleep(2)` after a connect, `await asyncio.sleep(5)` at the
\* end of the cycle
RcSleep(pc) == CASE pc = "sleep2" -> 2 [] pc = "sleep5" -> 5 [] OTHER -> 0

\* C13 as claimed: the only wait of the reconnect loop is the 5 seconds between
\* two cycles, whatever the cycle did; no cycle waits for anything else.
C13_Original == RcSleep(rc.pc) \in {0, 5}

\* C13 as amended: every cycle of the reconnect loop ends in a wait of 5
\* seconds, whether it found the target, issued a connect or had a call raise,
\* and the next cycle starts out of that wait only; a cycle whose connect
\* returned waits 2 seconds more, before the 5, and no cycle has another wait.
C13_FiveSecondsAfterEachCycle ==
    [][ /\ (rc' # rc /\ rc'.pc = "devices_run") => rc.pc \in {"start", "sleep5"}
        /\ (rc.pc = "sleep5" /\ rc' # rc) => (RcSleep(rc.pc) = 5 /\ rc'.pc = "devices_run")
        /\ (rc.pc = "devices_run" /\ rc' # rc /\ ev'.res.exc) => RcSleep(rc'.pc) = 5
        /\ (rc.pc = "test" /\ rc'.pc # "connect" /\ rc' # rc) => RcSleep(rc'.pc) = 5
        /\ (rc.pc = "connect_run" /\ rc' # rc) =>
               RcSleep(rc'.pc) = IF ev'.res.exc THEN 5 ELSE 2
        /\ (rc.pc = "sleep2" /\ rc' # rc) => (RcSleep(rc.pc) = 2 /\ RcSleep(rc'.pc) = 5)
        /\ (RcSleep(rc'.pc) # 0 /\ rc' # rc) => rc.pc \in {"devices_run", "test", "connect_run", "sleep2"}
        /\ RcSleep(rc'.pc) \in {0, 2, 5} ]_vars

C13_Witness ==
    /\ rc.pc = "sleep2"
    /\ ev.type = "ret"
    /\ ev.by = "rc"
    /\ ev.o.kind = "exit"
    /\ ev.o.rc = 1

\* a child process started by a request handler, the reconnect loop or a frame
\* stream has not ended yet
InvocationInFlight ==
    \/ running = "key"
    \/ rc.pc \in {"devices_run", "connect_run"}
    \/ \E w \in Workers : th[w].pc = "run"
    \/ \E c \in Clients : gt[c] = "run"

\* C14: no child process is waited for on the event loop: whenever one is in
\* flight, whoever started it, the event loop is free to run an unrelated
\* request, so that a set_ip can be started (and, once it has the loop, ended).
C14_InvocationsOffloaded ==
    /\ (InvocationInFlight /\ running # "set_ip") => ENABLED set_ip(HostA)
    /\ running = "set_ip" => ENABLED set_ip_return

\* C15: when a client has disconnected, no capture child of its stream is
\* still running: the cancellation has ended it.
C15_NoCaptureLeftRunning ==
    \A c \in Clients : ~connected[c] => gt[c] # "run"

\* the target the last step has read: the device of a command line, the string
\* the reconnect loop tested for, the adb_device of a status answer
ObservedTargets ==
    CASE ev.type = "spawn" /\ Len(ev.cmd) >= 3 -> {ev.cmd[3]}
      [] ev.type = "test" -> {ev.device}
      [] ev.type = "resp" /\ ev.op = "status" /\ ev.status = 200 -> {ev.body.adb_device}
      [] OTHER -> {}

\* the hosts a reader may find: that of the last set_ip that succeeded and that
\* of the set_ip under way
SettledOrUnderWay == {lastOk} \cup (IF arg = None THEN {} ELSE {arg})

\* C16: whatever a reader reads while a set_ip is under way or not, it is the
\* whole previous target or the whole new one, <host>:5555 for the previous
\* or the new host; and the answer of set_ip pairs its host with the string of
\* that host.
C16_ReadersSeeWholeTarget ==
    /\ \A t \in ObservedTargets : \E h \in SettledOrUnderWay : t = h \o Port
    /\ (ev.type = "resp" /\ ev.op = "set_ip" /\ ev.status = 200) =>
           ev.body.adb_device = ev.body.tv_ip \o Port

C16_Witness ==
    /\ running = "set_ip"
    /\ TV_IP = HostB
    /\ ADB_DEVICE = HostA \o Port
    /\ ev.type = "spawn"
    /\ ev.by = "connect"
    /\ ev.cmd[3] = HostA \o Port

\* C17: a frame stream starts a capture only when none of its captures is
\* outstanding, nothing is buffered, every capture that gave data has had its
\* frame yielded, and, after such a capture, the wait after the frame is over;
\* a capture is outstanding only while its stream awaits it; the stream holds
\* data only between the return of a capture and the frame of it; and a frame
\* a stream yields is the frame of the last capture of that stream, the other
\* streams being left as they are.
C17_OneCaptureOneFrame ==
    [][ \A c \in Clients :
          /\ (st[c].pc # "await_grab" /\ st'[c].pc = "await_grab") =>
                 /\ gt[c] = "idle"
                 /\ st[c].data = <<>>
                 /\ Len(frames[c]) = Len(Successful(caps[c]))
                 /\ st[c].pc \in {"top", "backoff", "wait"}
                 /\ (caps[c] # <<>> /\ caps[c][Len(caps[c])] # <<>>) => st[c].pc = "wait"
          /\ (connected'[c] /\ gt'[c] \in {"queued", "run"}) => st'[c].pc = "await_grab"
          /\ st'[c].data # <<>> => (st'[c].pc = "resume" /\ st'[c].data = caps'[c][Len(caps'[c])])
          /\ (frames'[c] # frames[c] /\ frames'[c] # <<>>) =>
                 /\ Len(frames'[c]) = Len(frames[c]) + 1
                 /\ IsFrameOf(frames'[c][Len(frames'[c])], caps[c][Len(caps[c])])
                 /\ \A d \in Clients \ {c} : frames'[d] = frames[d] /\ caps'[d] = caps[d] ]_vars

C17_Witness ==
    /\ caps["c1"] = <<Img1>>
    /\ caps["c2"] = <<Img2>>
    /\ Len(frames["c1"]) = 1
    /\ Len(frames["c2"]) = 1
    /\ frames["c1"] # frames["c2"]
    /\ st["c1"].pc = "await_grab"
    /\ gt["c1"] = "run"
    /\ st["c2"].pc = "wait"

\* C18: the body of every 200 answer of GET /screenshot is the stdout of the
\* child process of that request, whatever other screenshot requests do
\* meanwhile.
C18_ScreenshotIsOwnCapture ==
    (ev.type = "resp" /\ ev.op = "screenshot" /\ ev.status = 200) =>
        ev.body.content = ev.o.stdout

\* C19: the reconnect loop tests the device list for the session target as it
\* is at the test; from the test to the start of the connect no set_ip starts,
\* ends or changes the target; and the connect is issued against the target
\* that was tested.
C19_ConnectsToCheckedTarget ==
    [][ /\ (rc.pc = "test" /\ rc' # rc) =>
               /\ ev'.type = "test"
               /\ ev'.device = ADB_DEVICE
               /\ ADB_DEVICE' = ADB_DEVICE
        /\ rc.pc = "connect" =>
               /\ ADB_DEVICE' = ADB_DEVICE
               /\ TV_IP' = TV_IP
               /\ running' # "set_ip"
               /\ ~(ev'.type = "resp" /\ ev'.op = "set_ip" /\ ev' # ev)
               /\ rc' # rc =>
                      /\ ev'.type = "spawn"
                      /\ ev'.cmd = <<T("adb"), T("connect"), ADB_DEVICE>> ]_vars

C19_Witness ==
    /\ rc.pc = "connect_run"
    /\ ev.type = "spawn"
    /\ ev.by = "rc"
    /\ ev.cmd = <<T("adb"), T("connect"), HostB \o Port>>
    /\ th["w1"].op = "status"
    /\ th["w2"].op = "screenshot"

\* the step is one of connect, status, reboot, screenshot, key_event, the
\* reconnect loop or a frame stream
OperationStep ==
    \/ th' # th
    \/ rc' # rc
    \/ st' # st
    \/ gt' # gt
    \/ running = "key"
    \/ running' = "key"
    \/ (ev'.type = "resp" /\ ev'.op = "key" /\ ev' # ev)

\* C20: a step of connect, status, key_event, reboot, screenshot, the reconnect
\* loop or a frame stream, however its child ends, leaves TV_IP and ADB_DEVICE
\* as they are, and so does a set_ip that is answered 400; the target changes
\* only by a set_ip with a host, to <that host>:5555.
C20_OnlySetIpChangesTarget ==
    [][ /\ OperationStep => (TV_IP' = TV_IP /\ ADB_DEVICE' = ADB_DEVICE)
        /\ (ev'.type = "resp" /\ ev'.status # 200) => (TV_IP' = TV_IP /\ ADB_DEVICE' = ADB_DEVICE)
        /\ TV_IP' # TV_IP =>
               (running = "none" /\ running' = "set_ip" /\ arg' \notin {None, E} /\ TV_IP' = arg')
        /\ ADB_DEVICE' # ADB_DEVICE =>
               /\ running = "set_ip"
               /\ ev'.type = "resp" /\ ev'.op = "set_ip" /\ ev'.status = 200
               /\ ADB_DEVICE' = arg \o Port ]_vars

C20_Witness ==
    /\ lastOk = HostA
    /\ ADB_DEVICE = HostA \o Port
    /\ ev.type = "resp"
    /\ ev.op = "screenshot"
    /\ ev.status = 500
    /\ rc.pc = "connect_run"
    /\ gt["c1"] = "run"

=============================================================================
